---- MODULE Spec2Model ----
(***************************************************************************)
(* Model of events_scrape.py: process_events_data and its nested           *)
(* process_event coroutine (bounded-concurrency enrichment with            *)
(* checkpointing), together with the checkpoint directory, the clock and   *)
(* process crash / restart.                                                *)
(*                                                                         *)
(* asyncio is a cooperative scheduler: a coroutine runs without            *)
(* interleaving between two awaits.  A task therefore has these steps:     *)
(*   gate  --Acquire-->  sleep  --Wake-->  fetch  --FetchReturn--> ...     *)
(* and everything from the return of extract_event_data to the release of  *)
(* the semaphore is one step, except that a process crash or a write       *)
(* error can fall between the open(checkpoint_file, 'w') and the end of    *)
(* json.dump; that point is the task position "writing".  A kill can also  *)
(* fall after json.dump and before os.remove, or inside the write of the   *)
(* output file: the files it leaves are outcomes of the Crash step.        *)
(***************************************************************************)
EXTENDS Integers, Sequences, FiniteSets, TLC

\* ---------------------------------------------------------------- bounds
MaxEvents == 2       \* records in the input file, over all its years
StoreEvents == 4     \* records of the long input (enough saves to prune)
MaxTick == 7         \* last clock instant, in half seconds
MaxAdvance == 2      \* most the clock moves, either way, between two readings
MaxRuns == 2         \* process starts (1 = no restart)

\* ------------------------------------------------------------- constants
Keep == 3            \* checkpoint_files[:-3]
TicksPerSecond == 2  \* clock instants per strftime("%S") second

Years == <<"2020", "2021">>
YearSet == {Years[k] : k \in 1..Len(Years)}

\* An input record either carries a url or not; both kinds carry a "date",
\* a key the detail page yields too.
WithUrl == [url |-> "u", date |-> "d0"]
NoUrl == [date |-> "d0"]
RecordKinds == {WithUrl, NoUrl}

\* The dict extract_event_data returns on success (keys cut down to one that
\* collides with the listing record and one that does not).
EventData == {[date |-> "d1", setlist |-> "s1"]}
NoneResult == [isNone |-> TRUE, fields |-> [date |-> "None"]]
FetchResults == {NoneResult} \cup {[isNone |-> FALSE, fields |-> e] : e \in EventData}

\* "if detailed_data:" is false for None (and for an empty dict).
Truthy(detailed) == ~detailed.isNone /\ DOMAIN detailed.fields # {}

MergeKeepsOld(event, detailed) ==
  LET both == DOMAIN event \cap DOMAIN detailed
      kept == IF "date" \in both THEN {"date_listing"} ELSE {}
  IN [k \in DOMAIN event \cup DOMAIN detailed \cup kept |->
        IF k \in kept THEN event["date"]
        ELSE IF k \in DOMAIN detailed THEN detailed[k] ELSE event[k]]

MergeOriginalWins(event, detailed) ==
  [k \in DOMAIN event \cup DOMAIN detailed |->
     IF k \in DOMAIN event THEN event[k] ELSE detailed[k]]

\* {**event, **detailed_data}
Merge(event, detailed) ==
  [k \in DOMAIN event \cup DOMAIN detailed |->
     IF k \in DOMAIN detailed THEN detailed[k] ELSE event[k]]

\* A year's value: a JSON array of records, or something that is not a list.
NonList == [isList |-> FALSE, items |-> <<>>]
ListOf(s) == [isList |-> TRUE, items |-> s]

SeqsUpTo(S, n) == UNION {[1..k -> S] : k \in 0..n}
Entries(n) == {NonList} \cup {ListOf(s) : s \in SeqsUpTo(RecordKinds, n)}
TotalLen(ds) == Len(ds[Years[1]].items) + Len(ds[Years[2]].items)
\* Input files: up to MaxEvents records in all, at most one of them in the
\* second year.
SmallInputs == {ds \in [YearSet -> Entries(MaxEvents)] :
                  /\ TotalLen(ds) <= MaxEvents
                  /\ Len(ds[Years[2]].items) <= 1}
LongInput == [y \in YearSet |->
                IF y = Years[1] THEN ListOf([k \in 1..StoreEvents |-> WithUrl])
                ELSE NonList]

\* json.dump / json.load.  A file holds the text of a dataset, whole or cut
\* short; json.load of a text cut short raises JSONDecodeError.
Serialize(ds) == [text |-> ds, whole |-> TRUE]
Truncated(ds) == [text |-> ds, whole |-> FALSE]
Loadable(file) == file.whole
Load(file) == file.text

\* datetime.now().strftime("%Y%m%d_%H%M%S"): the instant cut to its second.
\* Names "checkpoint_<stamp>.json" sort as their stamps do.
Strftime(t) == t \div TicksPerSecond

Max(S) == CHOOSE x \in S : \A y \in S : y <= x

\* sorted(listdir)[-3:] : the Keep last names.
LastNames(names, n) == {x \in names : Cardinality({y \in names : y > x}) < n}

\* checkpoint_files[:-3]: how many names the loop of line 172 goes through.
Excess(dir) ==
  IF Cardinality(DOMAIN dir) > Keep THEN Cardinality(DOMAIN dir) - Keep ELSE 0

\* The directory after the first n calls of os.remove (line 173), which take
\* the names in sorted order.
RemoveOldest(dir, n) ==
  [x \in {z \in DOMAIN dir : Cardinality({y \in DOMAIN dir : y < z}) >= n} |-> dir[x]]

\* "for old_checkpoint in checkpoint_files[:-3]: os.remove(...)"
Prune(dir) == [x \in LastNames(DOMAIN dir, Keep) |-> dir[x]]

DividesBefore(interval, count) ==
  IF interval > 0 THEN (count - 1) % interval = 0
  ELSE (count - 1) % (0 - interval) = 0

\* processed_count % checkpoint_interval == 0, Python's %, divisor non-zero.
Divides(interval, count) ==
  IF interval > 0 THEN count % interval = 0 ELSE count % (0 - interval) = 0

\* Lines 134-140: the (year, i, event) triples, years in file order.
RECURSIVE EnumList(_, _, _)
EnumList(year, items, i) ==
  IF i > Len(items) THEN <<>>
  ELSE (IF "url" \in DOMAIN items[i]
          THEN <<[year |-> year, index |-> i, event |-> items[i]]>>
          ELSE <<>>) \o EnumList(year, items, i + 1)

RECURSIVE EnumYears(_, _)
EnumYears(ds, k) ==
  IF k > Len(Years) THEN <<>>
  ELSE (IF ds[Years[k]].isList THEN EnumList(Years[k], ds[Years[k]].items, 1)
        ELSE <<>>) \o EnumYears(ds, k + 1)

Enumerate(ds) == EnumYears(ds, 1)

SetSlotFirst(ds, year, index, value) ==
  [ds EXCEPT ![year] = [@ EXCEPT !.items = [@ EXCEPT ![1] = value]]]

\* updated_data[year][index] = value
SetSlot(ds, year, index, value) ==
  [ds EXCEPT ![year] = [@ EXCEPT !.items = [@ EXCEPT ![index] = value]]]

Unbound == [bound |-> FALSE, val |-> LongInput]
Bound(ds) == [bound |-> TRUE, val |-> ds]

VARIABLES
  input_file,           \* content of the input file (never written)
  max_concurrent,       \* argument
  checkpoint_interval,  \* argument
  faults,               \* exceptions the environment can raise: "open", "dump",
                        \* "remove", "pbar" (tqdm(), pbar.update, pbar.close)
  files,                \* checkpoints/: stamp of each checkpoint_* file -> content
  output_file,          \* <<>> or <<content>>
  now,                  \* the clock: the instant of the last checkpoint name
  runs,                 \* process starts so far
  phase,                \* "start" | "running" | "done" | "aborted" | "crashed"
  error,                \* exception that left process_events_data, or "none"
  data,                 \* local `data` (unbound until line 127)
  updated_data,         \* local `updated_data`
  events_to_process,
  semaphore,            \* free slots
  processed_count,
  pbar,                 \* pbar.n
  pc,                   \* position of each task
  detail,               \* what extract_event_data returned to each task
  checkpoint_file,      \* stamp of the file a task has open for writing
  saves,                \* history: checkpoint files opened for writing
  attempts,             \* history: times line 161 found a checkpoint due, this run
  output_writes         \* history: writes of the output file in this run

vars == <<input_file, max_concurrent, checkpoint_interval, faults, files, output_file,
          now, runs, phase, error, data, updated_data, events_to_process,
          semaphore, processed_count, pbar, pc, detail, checkpoint_file,
          saves, attempts, output_writes>>

config == <<input_file, max_concurrent, checkpoint_interval, faults>>

\* Whether a call that can raise returns normally: both, or only TRUE when
\* the environment does not raise that exception.
Outcomes(kind) == IF kind \in faults THEN BOOLEAN ELSE {TRUE}

Tasks == 1..Len(events_to_process)
NotStarted == [isNone |-> TRUE, fields |-> [date |-> "pending"]]

Volatile0 ==
  /\ error = "none"
  /\ data = Unbound
  /\ updated_data = Unbound
  /\ events_to_process = <<>>
  /\ semaphore = 0
  /\ processed_count = 0
  /\ pbar = 0
  /\ pc = <<>>
  /\ detail = <<>>
  /\ checkpoint_file = -1
  /\ attempts = <<>>
  /\ output_writes = 0

Persistent0 ==
  /\ files = <<>>
  /\ output_file = <<>>
  /\ now = 0
  /\ runs = 1
  /\ phase = "start"
  /\ saves = <<>>
  /\ Volatile0

\* Any small input file under any arguments, invalid ones included.
Init ==
  /\ input_file \in {Serialize(ds) : ds \in SmallInputs}
  /\ max_concurrent \in {-1, 0, 1, 2}
  /\ checkpoint_interval \in {0, 1, 2}
  /\ faults = {"open", "dump", "remove", "pbar"}
  /\ Persistent0

\* One long input file, a checkpoint at every completion, one task at a time;
\* of the exceptions only those of json.dump and os.remove.
InitStore ==
  /\ input_file = Serialize(LongInput)
  /\ max_concurrent = 1
  /\ checkpoint_interval = 1
  /\ faults = {"dump", "remove"}
  /\ Persistent0

\* What datetime.now() can return: local wall-clock time, which moves on and
\* can be set back.  (A reading whose open() fails names no file and is not
\* remembered.)
ClockReadings == {t \in (now - MaxAdvance)..(now + MaxAdvance) : 0 <= t /\ t <= MaxTick}

NoWriter == \A j \in Tasks : pc[j] # "writing"

TaskSourceRestored(d, ud) == ud

\* Line 135 enumerates the tasks from the local `data`.
TaskSource(d, ud) == d

\* checkpoint_files[-1] of the sorted listing (line 121).
Latest(dir) == dir[Max(DOMAIN dir)]

\* Lines 113-147 and the creation of the tasks (181-187).  The exceptions
\* that can leave it, in the order of the code: json.load (124, 127),
\* Semaphore (131), the read of `data` (135), tqdm(...) (144).
Start ==
  /\ phase = "start"
  /\ \E tqdmOk \in Outcomes("pbar") :
     LET restoring == DOMAIN files # {}
         latest == Latest(files)
         readable == IF restoring THEN Loadable(latest) ELSE Loadable(input_file)
         d1 == IF restoring THEN Unbound ELSE Bound(Load(input_file))
         ud1 == IF restoring THEN Bound(Load(latest)) ELSE d1
         src == TaskSource(d1, ud1)
         early == IF ~readable THEN "JSONDecodeError"
                  ELSE IF max_concurrent < 0 THEN "ValueError"
                  ELSE IF ~src.bound THEN "UnboundLocalError"
                  ELSE "none"
         fail == IF early = "none" /\ ~tqdmOk THEN "pbar" ELSE early
         todo == IF fail = "none" THEN Enumerate(src.val) ELSE <<>>
     IN /\ early # "none" => tqdmOk
        /\ data' = (IF readable THEN d1 ELSE Unbound)
        /\ updated_data' = (IF readable THEN ud1 ELSE Unbound)
        /\ error' = fail
        /\ phase' = (IF fail = "none" THEN "running" ELSE "aborted")
        /\ semaphore' = (IF fail \in {"none", "UnboundLocalError", "pbar"}
                           THEN max_concurrent ELSE 0)
        /\ events_to_process' = todo
        /\ pc' = [i \in 1..Len(todo) |-> "gate"]
        /\ detail' = [i \in 1..Len(todo) |-> NotStarted]
  /\ UNCHANGED <<config, files, output_file, now, runs, processed_count, pbar,
                 checkpoint_file, saves, attempts, output_writes>>

AcquireUngated(i) ==
  /\ phase = "running" /\ NoWriter
  /\ pc[i] = "gate"
  /\ \A j \in Tasks : j < i => pc[j] # "gate"
  /\ semaphore' = semaphore - 1
  /\ pc' = [pc EXCEPT ![i] = "sleep"]
  /\ UNCHANGED <<config, files, output_file, now, runs, phase, error, data,
                 updated_data, events_to_process, processed_count, pbar, detail,
                 checkpoint_file, saves, attempts, output_writes>>

\* "async with semaphore": a free slot is taken; waiters are served in the
\* order the tasks were created.
Acquire(i) ==
  /\ phase = "running" /\ NoWriter
  /\ pc[i] = "gate"
  /\ semaphore > 0
  /\ \A j \in Tasks : j < i => pc[j] # "gate"
  /\ semaphore' = semaphore - 1
  /\ pc' = [pc EXCEPT ![i] = "sleep"]
  /\ UNCHANGED <<config, files, output_file, now, runs, phase, error, data,
                 updated_data, events_to_process, processed_count, pbar, detail,
                 checkpoint_file, saves, attempts, output_writes>>

\* asyncio.sleep(delay_before_request) is over; session.get is issued.
Wake(i) ==
  /\ phase = "running" /\ NoWriter
  /\ pc[i] = "sleep"
  /\ pc' = [pc EXCEPT ![i] = "fetch"]
  /\ UNCHANGED <<config, files, output_file, now, runs, phase, error, data,
                 updated_data, events_to_process, semaphore, processed_count,
                 pbar, detail, checkpoint_file, saves, attempts, output_writes>>

TaskExitPropagates(d, pbarOk) == IF pbarOk /\ ~d.isNone THEN "done" ELSE "raised"

\* How process_event ends (lines 175-178): "except Exception" logs and
\* swallows, a None from extract_event_data is no exception at all; only an
\* exception of pbar.update in the finally clause leaves the task.
TaskExit(d, pbarOk) == IF pbarOk THEN "done" ELSE "raised"

\* finally: pbar.update(1), which adds to pbar.n and then writes the display
\* (the write is what can raise); then the semaphore is released.
Finally(i, d, pbarOk) ==
  /\ pbar' = pbar + 1
  /\ pc' = [pc EXCEPT ![i] = TaskExit(d, pbarOk)]
  /\ semaphore' = semaphore + 1

\* The slot a successful fetch leaves at (year, index): lines 155-156.
SlotWrite(ud, task, d) ==
  IF Truthy(d)
    THEN SetSlot(ud, task.year, task.index, Merge(task.event, d.fields))
    ELSE ud

\* open(checkpoint_file, 'w'): the file exists and is empty.
OpenForWrite(dir, stamp, ds) ==
  [x \in DOMAIN dir \cup {stamp} |-> IF x = stamp THEN Truncated(ds) ELSE dir[x]]

CountedOnSuccess(count, d) == IF Truthy(d) THEN count + 1 ELSE count

\* processed_count += 1 (line 158), whatever extract_event_data returned.
Counted(count, d) == count + 1

\* Lines 154-168 up to the open of the checkpoint file, and 175-178 when no
\* checkpoint is due or the open (or the % by zero) raises.
FetchReturn(i) ==
  /\ phase = "running" /\ NoWriter
  /\ pc[i] = "fetch"
  /\ \E d \in FetchResults, t \in ClockReadings,
        openOk \in Outcomes("open"), pbarOk \in Outcomes("pbar") :
       LET ud1 == SlotWrite(updated_data.val, events_to_process[i], d)
           cnt == Counted(processed_count, d)
           due == checkpoint_interval # 0 /\ Divides(checkpoint_interval, cnt)
           stamp == Strftime(t)
       IN /\ detail' = [detail EXCEPT ![i] = d]
          /\ updated_data' = Bound(ud1)
          /\ processed_count' = cnt
          /\ attempts' = (IF due
                            THEN Append(attempts,
                                        [task |-> i, count |-> cnt, snapshot |-> ud1,
                                         counted |-> {j \in Tasks :
                                           j = i \/ pc[j] \in {"writing", "done", "raised"}}])
                            ELSE attempts)
          /\ IF due /\ openOk
               THEN /\ now' = t
                    /\ files' = OpenForWrite(files, stamp, ud1)
                    /\ checkpoint_file' = stamp
                    /\ saves' = Append(saves, [stamp |-> stamp, task |-> i,
                                               count |-> cnt, snapshot |-> ud1,
                                               status |-> "open"])
                    /\ pc' = [pc EXCEPT ![i] = "writing"]
                    /\ UNCHANGED <<pbar, semaphore>>
               ELSE /\ t = now
                    /\ due \/ openOk
                    /\ Finally(i, d, pbarOk)
                    /\ UNCHANGED <<now, files, checkpoint_file, saves>>
  /\ UNCHANGED <<config, output_file, runs, phase, error, data,
                 events_to_process, output_writes>>

SetStatus(log, s) == [log EXCEPT ![Len(log)].status = s]

\* json.dump completes (line 168), old checkpoints are removed (171-173),
\* then the finally clause.  An os.remove that raises ends the loop with the
\* first n files gone (n less than their number); "except Exception" logs it.
WriteDone(i) ==
  /\ phase = "running"
  /\ pc[i] = "writing"
  /\ \E pbarOk \in Outcomes("pbar") :
       /\ LET dumped == [files EXCEPT ![checkpoint_file] = Serialize(updated_data.val)]
          IN \E n \in 0..Excess(dumped) :
               /\ n = Excess(dumped) \/ "remove" \in faults
               /\ files' = (IF n = Excess(dumped) THEN Prune(dumped)
                                                  ELSE RemoveOldest(dumped, n))
       /\ saves' = SetStatus(saves, "ok")
       /\ checkpoint_file' = -1
       /\ Finally(i, detail[i], pbarOk)
  /\ UNCHANGED <<config, output_file, now, runs, phase, error, data, updated_data,
                 events_to_process, processed_count, detail, attempts,
                 output_writes>>

WriteFailPropagates(i) ==
  /\ phase = "running"
  /\ pc[i] = "writing"
  /\ "dump" \in faults
  /\ saves' = SetStatus(saves, "failed")
  /\ checkpoint_file' = -1
  /\ pbar' = pbar + 1
  /\ pc' = [pc EXCEPT ![i] = "raised"]
  /\ semaphore' = semaphore + 1
  /\ UNCHANGED <<config, files, output_file, now, runs, phase, error, data,
                 updated_data, events_to_process, processed_count, detail,
                 attempts, output_writes>>

\* json.dump raises part-way (disk full): the except clause logs, the file
\* stays as it is, nothing is removed.
WriteFail(i) ==
  /\ phase = "running"
  /\ pc[i] = "writing"
  /\ "dump" \in faults
  /\ \E pbarOk \in Outcomes("pbar") :
       /\ saves' = SetStatus(saves, "failed")
       /\ checkpoint_file' = -1
       /\ Finally(i, detail[i], pbarOk)
  /\ UNCHANGED <<config, files, output_file, now, runs, phase, error, data,
                 updated_data, events_to_process, processed_count, detail,
                 attempts, output_writes>>

\* asyncio.gather returns once every task has returned (line 187).
Gathered == \A j \in Tasks : pc[j] = "done"

\* Lines 187-192: pbar.close(), then the output file is opened for writing
\* and the dataset is dumped into it, all outside any try: an exception of
\* pbar.close or of open leaves the file as it was, an exception of json.dump
\* leaves it cut short, and each leaves process_events_data.
Finish ==
  /\ phase = "running"
  /\ Gathered
  /\ \E closeOk \in Outcomes("pbar"), openOk \in Outcomes("open"),
        dumpOk \in Outcomes("dump") :
       /\ ~closeOk => openOk
       /\ ~(closeOk /\ openOk) => dumpOk
       /\ output_file' = (IF ~(closeOk /\ openOk) THEN output_file
                          ELSE IF dumpOk THEN <<Serialize(updated_data.val)>>
                          ELSE <<Truncated(updated_data.val)>>)
       /\ output_writes' = (IF closeOk /\ openOk THEN output_writes + 1
                            ELSE output_writes)
       /\ phase' = (IF closeOk /\ openOk /\ dumpOk THEN "done" ELSE "aborted")
       /\ error' = (IF ~closeOk THEN "pbar"
                    ELSE IF ~openOk THEN "PermissionError"
                    ELSE IF ~dumpOk THEN "OSError" ELSE error)
  /\ UNCHANGED <<config, files, now, runs, data, updated_data,
                 events_to_process, semaphore, processed_count, pbar, pc, detail,
                 checkpoint_file, saves, attempts>>

\* asyncio.gather re-raises the exception of a task; asyncio.run cancels the
\* tasks still pending and the process ends without writing the output.
GatherRaise ==
  /\ phase = "running" /\ NoWriter
  /\ \E j \in Tasks : pc[j] = "raised"
  /\ phase' = "aborted"
  /\ error' = "pbar"
  /\ data' = Unbound
  /\ updated_data' = Unbound
  /\ events_to_process' = <<>>
  /\ semaphore' = 0
  /\ processed_count' = 0
  /\ pbar' = 0
  /\ pc' = <<>>
  /\ detail' = <<>>
  /\ attempts' = <<>>
  /\ UNCHANGED <<config, files, output_file, now, runs, checkpoint_file, saves,
                 output_writes>>

\* The process is killed; only the files survive.  The kill falls at an
\* await or inside a json.dump of a checkpoint (files as they are), between
\* the end of that json.dump and the last os.remove (the file whole, and of
\* the files to remove the first n gone, n less than their number), or
\* inside the json.dump of the output file (the output cut short).
Crash ==
  /\ phase = "running"
  /\ \E point \in {"await", "dumped", "output"} :
       /\ point = "dumped" => checkpoint_file # -1
       /\ point = "output" => Gathered
       /\ IF point = "dumped"
            THEN LET dumped == [files EXCEPT ![checkpoint_file] = Serialize(updated_data.val)]
                 IN \E n \in 0..Excess(dumped) :
                      /\ n = 0 \/ n < Excess(dumped)
                      /\ files' = RemoveOldest(dumped, n)
            ELSE files' = files
       /\ output_file' = (IF point = "output"
                            THEN <<Truncated(updated_data.val)>>
                            ELSE output_file)
  /\ phase' = "crashed"
  /\ error' = "none"
  /\ data' = Unbound
  /\ updated_data' = Unbound
  /\ events_to_process' = <<>>
  /\ semaphore' = 0
  /\ processed_count' = 0
  /\ pbar' = 0
  /\ pc' = <<>>
  /\ detail' = <<>>
  /\ checkpoint_file' = -1
  /\ attempts' = <<>>
  /\ output_writes' = 0
  /\ UNCHANGED <<config, now, runs, saves>>

\* process_events_data is run again on the same directory, after a run that
\* was killed, that raised or that finished.
Restart ==
  /\ phase \in {"aborted", "crashed", "done"}
  /\ runs < MaxRuns
  /\ runs' = runs + 1
  /\ phase' = "start"
  /\ error' = "none"
  /\ data' = Unbound
  /\ updated_data' = Unbound
  /\ events_to_process' = <<>>
  /\ semaphore' = 0
  /\ processed_count' = 0
  /\ pbar' = 0
  /\ pc' = <<>>
  /\ detail' = <<>>
  /\ checkpoint_file' = -1
  /\ attempts' = <<>>
  /\ output_writes' = 0
  /\ UNCHANGED <<config, files, output_file, now, saves>>

Next ==
  \/ Start
  \/ \E i \in Tasks : Acquire(i)
  \/ \E i \in Tasks : Wake(i)
  \/ \E i \in Tasks : FetchReturn(i)
  \/ \E i \in Tasks : WriteDone(i)
  \/ \E i \in Tasks : WriteFail(i)
  \/ Finish
  \/ GatherRaise
  \/ Crash
  \/ Restart

Spec == Init /\ [][Next]_vars

\* One run of the program that nothing kills, with a gate that lets tasks in.
InitLive ==
  /\ input_file \in {Serialize(ds) : ds \in SmallInputs}
  /\ max_concurrent \in {1, 2}
  /\ checkpoint_interval \in {0, 1, 2}
  /\ faults = {"open", "dump", "remove", "pbar"}
  /\ Persistent0

NextLive ==
  \/ Start
  \/ \E i \in Tasks : Acquire(i)
  \/ \E i \in Tasks : Wake(i)
  \/ \E i \in Tasks : FetchReturn(i)
  \/ \E i \in Tasks : WriteDone(i)
  \/ \E i \in Tasks : WriteFail(i)
  \/ Finish
  \/ GatherRaise

\* The event loop runs every coroutine that is ready: the coordinator, and
\* each task at the gate (woken in FIFO order), after its sleep, when its
\* fetch has returned and when its synchronous write ends.
Fairness ==
  /\ WF_vars(Start)
  /\ WF_vars(Finish)
  /\ WF_vars(GatherRaise)
  /\ \A i \in 1..MaxEvents :
       WF_vars(i \in Tasks /\ (Acquire(i) \/ Wake(i) \/ FetchReturn(i)
                                \/ WriteDone(i) \/ WriteFail(i)))

SpecLive == InitLive /\ [][NextLive]_vars /\ Fairness

\* Without pbar exceptions no task raises, so gather never re-raises.
NextStore ==
  \/ Start
  \/ \E i \in Tasks : Acquire(i)
  \/ \E i \in Tasks : Wake(i)
  \/ \E i \in Tasks : FetchReturn(i)
  \/ \E i \in Tasks : WriteDone(i)
  \/ \E i \in Tasks : WriteFail(i)
  \/ Finish
  \/ Crash
  \/ Restart

SpecStore == InitStore /\ [][NextStore]_vars

\* ------------------------------------------------------------------------
\* Properties
\* ------------------------------------------------------------------------

Slot(ds, task) == ds[task.year].items[task.index]
InFlight == {i \in Tasks : pc[i] \in {"sleep", "fetch", "writing"}}
Enriched(rec) == "setlist" \in DOMAIN rec
Restored == updated_data.bound /\ ~data.bound
LastSave == saves[Len(saves)]

\* C1: with max_concurrent >= 1, the tasks that hold the semaphore (in their
\* delay, their fetch or their checkpoint write) never number more than
\* max_concurrent.
C1_GateBound ==
  (phase = "running" /\ max_concurrent >= 1)
    => /\ Cardinality(InFlight) <= max_concurrent
       /\ semaphore >= 0

\* C1 witness: the gate is full and a task waits at it.
C1_Witness ==
  /\ phase = "running" /\ max_concurrent >= 1
  /\ Cardinality(InFlight) = max_concurrent
  /\ \E i \in Tasks : pc[i] = "gate"

\* C2: in a run started with a checkpoint present, every task of the task
\* set is for a record that carries a url and whose slot in the restored
\* dataset carries no enrichment field, so that no fetch is issued for a
\* slot the restored checkpoint had already enriched.
C2_ResumeSkipsEnriched ==
  (phase \in {"running", "done", "aborted"} /\ Restored)
    => \A i \in Tasks :
         /\ "url" \in DOMAIN events_to_process[i].event
         /\ ~Enriched(events_to_process[i].event)

\* C2 witness: a start has restored a checkpoint in which a record with a
\* url is already enriched.
C2_Witness ==
  /\ phase = "aborted" /\ Restored
  /\ \E y \in YearSet : \E k \in 1..Len(updated_data.val[y].items) :
       /\ Enriched(updated_data.val[y].items[k])
       /\ "url" \in DOMAIN updated_data.val[y].items[k]

\* C3 (as claimed): a start proceeds to its tasks whether the working dataset
\* came from the latest checkpoint or from the input file: startup never ends
\* in the error of reading a variable that was never assigned.
C3_StartProceeds ==
  ~(phase = "aborted" /\ error = "UnboundLocalError")

\* C4: in a run started from the input file every task's slot holds, at all
\* times and in the output file, the original record when the fetch has not
\* succeeded, and otherwise the record with every key of the original and
\* of the enrichment, the enrichment's value on the keys it has.
C4_WholeMerge ==
  (phase \in {"running", "done"} /\ data.bound)
    => /\ \A i \in Tasks :
            LET task == events_to_process[i]
                orig == Slot(Load(input_file), task)
                slot == Slot(updated_data.val, task)
                e == detail[i].fields
            IN IF detail[i].isNone
                 THEN slot = orig
                 ELSE /\ DOMAIN slot = DOMAIN orig \cup DOMAIN e
                      /\ \A k \in DOMAIN e : slot[k] = e[k]
                      /\ \A k \in DOMAIN orig \ DOMAIN e : slot[k] = orig[k]
       /\ phase = "done" => output_file = <<Serialize(updated_data.val)>>

\* C4 witness: the output is written with one task enriched, on a key the
\* original had too, and one task failed.
C4_Witness ==
  /\ phase = "done" /\ output_file # <<>>
  /\ \E i, j \in Tasks :
       /\ ~detail[i].isNone /\ detail[j] = NoneResult
       /\ Slot(Load(output_file[1]), events_to_process[i]).date = "d1"
       /\ Slot(Load(output_file[1]), events_to_process[i]).url = "u"

\* C5: the step in which a task's fetch fails (extract_event_data returns
\* None) leaves the run running, the dataset and every other task as they
\* were, and the task itself resolved (or raised by pbar.update alone); and
\* the output, once written, holds the original record in its slot.
FetchFails(i) ==
  /\ phase = "running" /\ pc[i] = "fetch"
  /\ i \in DOMAIN pc' /\ pc'[i] # "fetch"
  /\ detail'[i] = NoneResult

C5_FailureStep ==
  \A i \in Tasks :
    FetchFails(i) =>
      /\ phase' = "running"
      /\ updated_data' = updated_data
      /\ \A j \in Tasks \ {i} : pc'[j] = pc[j] /\ detail'[j] = detail[j]
      /\ \/ pc'[i] \in {"done", "raised"}
            /\ semaphore' = semaphore + 1 /\ pbar' = pbar + 1
         \/ pc'[i] = "writing" /\ semaphore' = semaphore /\ pbar' = pbar

C5_FailureOutput ==
  phase = "done" =>
    /\ output_writes = 1
    /\ \A i \in Tasks :
         detail[i] = NoneResult =>
           Slot(Load(output_file[1]), events_to_process[i])
             = Slot(Load(input_file), events_to_process[i])

\* C5, continued: a failing fetch can always end with the task returned
\* normally (or at its checkpoint write): it is not the failure that raises.
C5_FailureResolves ==
  \A i \in Tasks :
    (phase = "running" /\ NoWriter /\ pc[i] = "fetch")
      => ENABLED (FetchReturn(i) /\ detail'[i] = NoneResult
                  /\ pc'[i] \in {"done", "writing"})

C5_FailureIsolated ==
  [][C5_FailureStep]_vars /\ []C5_FailureOutput /\ []C5_FailureResolves

\* C5 witness: the output is written although the first task failed, and a
\* task created after it succeeded.
C5_Witness ==
  /\ phase = "done" /\ output_writes = 1
  /\ \E i, j \in Tasks : i < j /\ detail[i] = NoneResult /\ ~detail[j].isNone

\* The output file is opened for writing at most once in a run, only in a
\* state where every task has resolved, and no slot is written afterwards.
C6_OutputState ==
  /\ output_writes <= 1
  /\ phase = "done" => output_writes = 1 /\ output_file = <<Serialize(updated_data.val)>>
  /\ output_writes = 1 =>
       /\ phase \in {"done", "aborted"}
       /\ \A i \in Tasks : pc[i] = "done" /\ detail[i] # NotStarted
       /\ processed_count = Len(events_to_process)

C6_OutputNotEarly ==
  /\ []C6_OutputState
  /\ [][(output_writes = 1 /\ runs' = runs)
          => updated_data' = updated_data /\ output_writes' = 1]_vars
  /\ [][output_file' # output_file
          => phase = "running" /\ \A i \in Tasks : pc[i] = "done"]_vars

\* A run that has started its tasks and ends (returns or raises) has written
\* the output file, unless it ends on the failure to open that very file.
C6_EndsWritten ==
  (phase = "running" /\ phase' \in {"done", "aborted"} /\ error' # "PermissionError")
    => output_writes' = 1

\* C6 (as claimed): the output file is written exactly once per run: never
\* twice, never before every task has resolved, no slot write after it, and
\* a run that has started its tasks does not end without it (other than on
\* the failure to open the output file itself).
C6_OutputOnce == C6_OutputNotEarly /\ [][C6_EndsWritten]_vars

\* C7 (as claimed): after a successful save and its prune the directory holds at most
\* Keep checkpoint files, and every file removed is named before every file
\* kept.
C7_KeepsLatest ==
  (saves # <<>> /\ LastSave.status = "ok")
    => /\ Cardinality(DOMAIN files) <= Keep
       /\ \A k \in DOMAIN saves :
            saves[k].stamp \notin DOMAIN files
              => \A y \in DOMAIN files : saves[k].stamp < y
       /\ Cardinality(DOMAIN files) < Keep
            => \A k \in DOMAIN saves : saves[k].stamp \in DOMAIN files

\* C8 (as claimed): when the most recent save completed, a restart loads
\* exactly the dataset that was passed to it.
C8_RestoreLast ==
  (phase = "aborted" /\ Restored /\ saves # <<>> /\ LastSave.status = "ok")
    => updated_data.val = LastSave.snapshot

\* C9 (as claimed): whenever the process starts with checkpoint files
\* present, the file it selects holds a complete dataset.
C9_RestoreSeesWhole ==
  (phase = "start" /\ DOMAIN files # {}) => Loadable(Latest(files))

\* C10 (as claimed): every save is named strictly after all earlier saves.
C10_NamesIncrease ==
  \A a, b \in DOMAIN saves : a < b => saves[a].stamp < saves[b].stamp

\* The record a resolved task leaves in its slot, by what its fetch returned.
Expected(i) ==
  LET orig == Slot(Load(input_file), events_to_process[i])
  IN IF detail[i].isNone THEN orig
     ELSE [k \in DOMAIN orig \cup DOMAIN detail[i].fields |->
             IF k \in DOMAIN detail[i].fields THEN detail[i].fields[k] ELSE orig[k]]

\* C11: the step in which a checkpoint save fails (the open raises, or
\* json.dump raises part-way) leaves the run running, the task's slot write
\* in the dataset, the task counted and resolved (raised only if pbar.update
\* itself raises) and the other tasks as they were; a later save is still
\* attempted and the output, once written, is the whole working dataset.
OpenFails(i) ==
  /\ phase = "running" /\ pc[i] = "fetch"
  /\ i \in DOMAIN pc' /\ pc'[i] \in {"done", "raised"}
  /\ Len(attempts') = Len(attempts) + 1

DumpFails(i) ==
  /\ phase = "running" /\ pc[i] = "writing"
  /\ i \in DOMAIN pc' /\ saves' # <<>> /\ saves'[Len(saves')].status = "failed"

C11_SaveFailureStep ==
  \A i \in Tasks :
    (OpenFails(i) \/ DumpFails(i)) =>
      /\ phase' = "running"
      /\ processed_count' = Cardinality({j \in Tasks : pc'[j] \in {"done", "raised", "writing"}})
      /\ Slot(updated_data'.val, events_to_process[i])
           = (IF detail'[i].isNone THEN Slot(Load(input_file), events_to_process[i])
              ELSE Merge(events_to_process[i].event, detail'[i].fields))
      /\ pc'[i] \in {"done", "raised"}
      /\ pbar' = pbar + 1 /\ semaphore' = semaphore + 1
      /\ \A j \in Tasks \ {i} : pc'[j] = pc[j]

C11_SaveFailureOutput ==
  (phase = "done" /\ Len(saves) < Len(attempts))
    => /\ output_writes = 1
       /\ output_file = <<Serialize(updated_data.val)>>
       /\ \A i \in Tasks : pc[i] = "done" /\ Slot(updated_data.val, events_to_process[i]) = Expected(i)

\* C11, continued: a failing save can always end with the task returned
\* normally: it is not the failure of the open or of json.dump that raises.
C11_SaveFailureResolves ==
  \A i \in Tasks :
    /\ (phase = "running" /\ pc[i] = "writing" /\ "dump" \in faults)
         => ENABLED (WriteFail(i) /\ pc'[i] = "done")
    /\ (phase = "running" /\ NoWriter /\ pc[i] = "fetch" /\ "open" \in faults
         /\ checkpoint_interval > 0
         /\ Divides(checkpoint_interval, processed_count + 1))
         => ENABLED (FetchReturn(i) /\ saves' = saves /\ pc'[i] = "done")

C11_SaveFailureTolerated ==
  /\ [][C11_SaveFailureStep]_vars
  /\ []C11_SaveFailureOutput
  /\ []C11_SaveFailureResolves

\* C11 witness: the first save failed in json.dump, a later one was made and
\* completed, the enriched slot of the first task is in the output.
C11_Witness ==
  /\ phase = "done" /\ output_writes = 1
  /\ Len(saves) = 2 /\ saves[1].status = "failed" /\ saves[2].status = "ok"
  /\ ~detail[saves[1].task].isNone
  /\ Enriched(Slot(Load(output_file[1]), events_to_process[saves[1].task]))

\* C12 (as claimed): with max_concurrent <= 0 or checkpoint_interval <= 0 the
\* run aborts at startup: it never has tasks running and never completes.
C12_InvalidOptionFatal ==
  (max_concurrent <= 0 \/ checkpoint_interval <= 0)
    => phase \in {"start", "aborted"}

\* The progress bar has advanced once for each task that has left its
\* finally clause.
C13_PbarCounts ==
  phase \in {"running", "done"}
    => pbar = Cardinality({i \in Tasks : pc[i] \in {"done", "raised"}})

\* The step in which an exception of pbar.update in a task ends the run.
C13_RaiseEndsRun ==
  /\ phase = "running" /\ \E i \in Tasks : pc[i] = "raised"
  /\ phase' = "aborted"

\* C13 (as claimed): the progress bar advances once for each task that has
\* resolved, and an exception of pbar.update in a task never ends the run:
\* the other tasks go on and the output is written.
C13_ReportFailureHarmless == []C13_PbarCounts /\ [][~C13_RaiseEndsRun]_vars

\* C14: merging an enrichment a second time changes nothing: for every input
\* record kind and every fetch result, and for every slot a task of the run
\* has written (merging its fetch result into the slot as it stands).
MergedOnce(o, d) == IF Truthy(d) THEN Merge(o, d.fields) ELSE o

C14_MergeIdempotent ==
  /\ \A o \in RecordKinds, d \in FetchResults :
       MergedOnce(MergedOnce(o, d), d) = MergedOnce(o, d)
  /\ (phase \in {"running", "done"} /\ data.bound)
       => \A i \in Tasks :
            detail[i] # NotStarted =>
              LET task == events_to_process[i]
                  again == [task EXCEPT !.event = Slot(updated_data.val, task)]
              IN SlotWrite(updated_data.val, again, detail[i]) = updated_data.val

\* C14 witness: a task has merged an enrichment that collides with a key of
\* its record, and another task's fetch returned None.
C14_Witness ==
  /\ phase = "done"
  /\ \E i, j \in Tasks :
       /\ ~detail[i].isNone /\ detail[j] = NoneResult
       /\ Slot(updated_data.val, events_to_process[i]).date = "d1"
       /\ events_to_process[i].event.date = "d0"

\* C15: processed_count is the number of tasks whose fetch has returned
\* (success or failure, checkpoint saved or not); each step of a run adds to
\* it one for the task that leaves its fetch and nothing else, and when every
\* task has resolved it is the number of tasks.
Returned == {i \in Tasks : pc[i] \in {"writing", "done", "raised"}}

C15_CountState ==
  phase \in {"running", "done"}
    => /\ processed_count = Cardinality(Returned)
       /\ Returned = Tasks => processed_count = Len(events_to_process)

C15_CountStep ==
  (phase = "running" /\ phase' \in {"running", "done"})
    => /\ processed_count' >= processed_count
       /\ processed_count' - processed_count
            = Cardinality({i \in Tasks : pc[i] = "fetch" /\ pc'[i] # "fetch"})

C15_CountsEveryTask == []C15_CountState /\ [][C15_CountStep]_vars

\* C15 witness: the run is complete with two tasks counted, one whose fetch
\* failed and one whose checkpoint save failed.
C15_Witness ==
  /\ phase = "done" /\ processed_count = 2
  /\ \E i \in Tasks : detail[i] = NoneResult
  /\ Len(saves) < Len(attempts) \/ \E k \in DOMAIN saves : saves[k].status = "failed"

\* C16: with a positive checkpoint_interval, the saves attempted so far are
\* those of the positive multiples of the interval up to processed_count, one
\* each and in order; each is attempted in the step in which a task's
\* completion produces that count, by that task, with a dataset that holds
\* the task's own slot write.
C16_AttemptState ==
  (phase \in {"running", "done"} /\ checkpoint_interval > 0)
    => /\ Len(attempts) = processed_count \div checkpoint_interval
       /\ \A k \in DOMAIN attempts :
            /\ attempts[k].count = k * checkpoint_interval
            /\ Slot(attempts[k].snapshot, events_to_process[attempts[k].task])
                 = Expected(attempts[k].task)

C16_AttemptStep ==
  (phase = "running" /\ phase' = "running" /\ attempts' # attempts)
    => /\ Len(attempts') = Len(attempts) + 1
       /\ LET a == attempts'[Len(attempts')]
          IN /\ pc[a.task] = "fetch" /\ pc'[a.task] # "fetch"
             /\ a.count = processed_count' /\ processed_count' = processed_count + 1
             /\ a.snapshot = updated_data'.val

C16_SaveAtMultiples == []C16_AttemptState /\ [][C16_AttemptStep]_vars

\* C16 witness: interval 2, two tasks: one save, attempted by the second task
\* to complete, holding the enrichment of both.
C16_Witness ==
  /\ phase = "done" /\ checkpoint_interval = 2 /\ Len(attempts) = 1
  /\ \A i \in Tasks : Enriched(Slot(attempts[1].snapshot, events_to_process[i]))
  /\ Len(events_to_process) = 2

\* The dataset handed to a save attempted at count k: the k tasks counted so
\* far have their results in their slots, every other slot holds the input
\* record.
C17_SnapshotContent ==
  (phase \in {"running", "done"} /\ checkpoint_interval > 0)
    => \A k \in DOMAIN attempts :
         /\ Cardinality(attempts[k].counted) = attempts[k].count
         /\ \A i \in Tasks :
              Slot(attempts[k].snapshot, events_to_process[i])
                = IF i \in attempts[k].counted
                    THEN Expected(i)
                    ELSE Slot(Load(input_file), events_to_process[i])

\* C17 (as claimed): every checkpoint holds the slot writes of the tasks
\* counted so far and no other; and with checkpoint_interval = 1 and two
\* tasks, once both saves have completed there are two separate checkpoint
\* files, the first with the dataset of the first completion and the second
\* with that of the second.
C17_CheckpointPerCompletion ==
  /\ C17_SnapshotContent
  /\ (checkpoint_interval = 1 /\ Len(events_to_process) = 2 /\ Len(saves) = 2
      /\ saves[1].status = "ok" /\ saves[2].status = "ok")
       => /\ saves[1].stamp # saves[2].stamp
          /\ files[saves[1].stamp] = Serialize(saves[1].snapshot)
          /\ files[saves[2].stamp] = Serialize(saves[2].snapshot)

\* C18: no two tasks have the same (year, index); a slot changes only in the
\* step in which its own task's fetch returns, from the input record; every
\* record without a url and every year that is not a list is, in the working
\* dataset and in the output, what the input file holds.
SlotsOf(ds) == UNION {{<<y, k>> : k \in 1..Len(ds[y].items)} : y \in YearSet}
TaskSlots == {<<events_to_process[i].year, events_to_process[i].index>> : i \in Tasks}

C18_FrameState ==
  (phase \in {"running", "done"} /\ data.bound)
    => LET inp == Load(input_file)
           cur == updated_data.val
       IN /\ \A i, j \in Tasks :
               (events_to_process[i].year = events_to_process[j].year
                /\ events_to_process[i].index = events_to_process[j].index) => i = j
          /\ \A y \in YearSet :
               /\ cur[y].isList = inp[y].isList
               /\ Len(cur[y].items) = Len(inp[y].items)
               /\ ~inp[y].isList => cur[y] = inp[y]
          /\ \A sl \in SlotsOf(inp) :
               "url" \notin DOMAIN inp[sl[1]].items[sl[2]]
                 => /\ sl \notin TaskSlots
                    /\ cur[sl[1]].items[sl[2]] = inp[sl[1]].items[sl[2]]
          /\ phase = "done" => Load(output_file[1]) = cur

C18_FrameStep ==
  (phase = "running" /\ phase' = "running")
    => \A sl \in SlotsOf(updated_data.val) :
         updated_data'.val[sl[1]].items[sl[2]] # updated_data.val[sl[1]].items[sl[2]]
           => \E i \in Tasks :
                /\ <<events_to_process[i].year, events_to_process[i].index>> = sl
                /\ pc[i] = "fetch" /\ pc'[i] # "fetch"
                /\ updated_data.val[sl[1]].items[sl[2]]
                     = Load(input_file)[sl[1]].items[sl[2]]

C18_OwnSlotOnly == []C18_FrameState /\ [][C18_FrameStep]_vars

\* C18 witness: the output holds an enriched record after an untouched
\* record without url, beside a year that is not a list.
C18_Witness ==
  /\ phase = "done" /\ output_file # <<>>
  /\ ~Load(output_file[1])[Years[2]].isList
  /\ Len(Load(output_file[1])[Years[1]].items) = 2
  /\ Load(output_file[1])[Years[1]].items[1] = NoUrl
  /\ Enriched(Load(output_file[1])[Years[1]].items[2])

\* C19: with max_concurrent >= 1, under weak fairness and with every fetch
\* returning, a run that has created its tasks leads to a state where every
\* task has resolved, every gate slot is released and the output file is
\* written.
C19_RunCompletes ==
  (phase = "running" /\ max_concurrent >= 1)
    ~> (/\ phase = "done"
        /\ output_file # <<>>
        /\ \A i \in Tasks : pc[i] \in {"done", "raised"}
        /\ semaphore = max_concurrent)
====
